---- MODULE Spec2Model ----
(***************************************************************************)
(* service-loader: fetch a release archive from an S3/minio bucket, check  *)
(* its SHA-256 against the -sha flag or the companion .sha256 object, and  *)
(* save it locally (src/main.go, func run).                                *)
(*                                                                         *)
(* Strings the program only concatenates (app, tag, bucket, keys, error    *)
(* messages) are TLA+ strings.  Strings the program inspects or compares   *)
(* byte by byte (the archive, the checksum object, digests, opts.sha) are  *)
(* sequences of byte values 0..255; all of them are ASCII here, so Go's    *)
(* string(bytes) conversion is the identity on them.                       *)
(***************************************************************************)
EXTENDS Integers, Sequences, FiniteSets, TLC

VARIABLES cmdline, environ, exit, request, opts, store, files, files0, pc, archive,
          localChecksum, ret, trace

vars == <<cmdline, environ, exit, request, opts, store, files, files0, pc, archive,
          localChecksum, ret, trace>>

(***************************************************************************)
(* Bounds of the explored inputs.                                          *)
(***************************************************************************)
\* longest archive over the alphabet ArchiveAlphabet that the store may hold
MaxArchiveLen == 1
\* longest run of white space put before the first token of a checksum object
MaxLeadSpace == 1

ArchiveAlphabet == {97, 98}

RECURSIVE SeqsUpTo(_, _)
SeqsUpTo(S, n) ==
  IF n = 0 THEN {<<>>}
  ELSE LET shorter == SeqsUpTo(S, n - 1)
       IN  shorter \cup {Append(s, x) : s \in {t \in shorter : Len(t) = n - 1}, x \in S}

\* "hello", the archive of the end-to-end scenario
Hello == <<104, 101, 108, 108, 111>>

Archives == SeqsUpTo(ArchiveAlphabet, MaxArchiveLen) \cup {Hello}

(***************************************************************************)
(* crypto/sha256 and encoding/hex, as used by generateSha256.              *)
(***************************************************************************)
\* sha256 digest (32 bytes) of b: h.Sum(nil) after io.Copy(h, buf).  The values
\* are the real SHA-256 digests of every byte string over ArchiveAlphabet of
\* length <= 3 and of "hello".
Sum256(b) ==
  CASE b = <<>> ->
       <<227, 176, 196, 66, 152, 252, 28, 20, 154, 251, 244, 200, 153, 111, 185, 36, 39, 174, 65, 228, 100, 155, 147, 76, 164, 149, 153, 27, 120, 82, 184, 85>>
    [] b = <<97>> ->
       <<202, 151, 129, 18, 202, 27, 189, 202, 250, 194, 49, 179, 154, 35, 220, 77, 167, 134, 239, 248, 20, 124, 78, 114, 185, 128, 119, 133, 175, 238, 72, 187>>
    [] b = <<98>> ->
       <<62, 35, 232, 22, 0, 57, 89, 74, 51, 137, 79, 101, 100, 225, 177, 52, 139, 189, 122, 0, 136, 212, 44, 74, 203, 115, 238, 174, 213, 156, 0, 157>>
    [] b = <<97, 97>> ->
       <<150, 27, 109, 211, 237, 227, 203, 142, 203, 170, 203, 214, 141, 224, 64, 205, 120, 235, 46, 213, 136, 145, 48, 204, 235, 76, 73, 38, 142, 164, 213, 6>>
    [] b = <<97, 98>> ->
       <<251, 142, 32, 252, 46, 76, 63, 36, 140, 96, 195, 155, 214, 82, 243, 193, 52, 114, 152, 187, 151, 123, 139, 77, 89, 3, 184, 80, 85, 98, 6, 3>>
    [] b = <<98, 97>> ->
       <<151, 15, 81, 156, 44, 173, 188, 239, 177, 232, 22, 148, 249, 4, 188, 98, 41, 221, 42, 131, 0, 233, 140, 109, 13, 79, 196, 191, 202, 88, 65, 64>>
    [] b = <<98, 98>> ->
       <<59, 100, 219, 149, 203, 85, 199, 99, 57, 28, 112, 113, 8, 72, 154, 225, 139, 65, 18, 215, 131, 48, 13, 227, 142, 3, 59, 76, 152, 195, 222, 175>>
    [] b = <<97, 97, 97>> ->
       <<152, 52, 135, 109, 207, 176, 92, 177, 103, 165, 194, 73, 83, 235, 165, 140, 74, 200, 155, 26, 223, 87, 242, 143, 47, 157, 9, 175, 16, 126, 232, 240>>
    [] b = <<97, 97, 98>> ->
       <<56, 118, 14, 171, 182, 102, 232, 230, 30, 230, 40, 161, 124, 64, 144, 204, 80, 114, 142, 9, 95, 242, 66, 24, 17, 157, 81, 189, 34, 71, 83, 99>>
    [] b = <<97, 98, 97>> ->
       <<225, 36, 173, 204, 225, 251, 47, 136, 225, 234, 121, 156, 61, 8, 32, 132, 94, 211, 67, 230, 199, 57, 229, 65, 49, 252, 179, 165, 110, 75, 193, 189>>
    [] b = <<97, 98, 98>> ->
       <<113, 94, 223, 139, 168, 114, 148, 32, 205, 77, 28, 232, 94, 214, 25, 84, 169, 245, 49, 248, 197, 72, 223, 114, 140, 64, 126, 255, 232, 57, 41, 109>>
    [] b = <<98, 97, 97>> ->
       <<102, 94, 218, 230, 213, 38, 102, 209, 62, 53, 115, 204, 66, 246, 121, 156, 164, 21, 184, 115, 18, 195, 189, 15, 163, 126, 164, 78, 13, 225, 254, 100>>
    [] b = <<98, 97, 98>> ->
       <<236, 221, 151, 64, 92, 121, 180, 8, 238, 119, 145, 2, 157, 5, 210, 181, 120, 147, 217, 176, 106, 18, 130, 83, 30, 13, 247, 41, 218, 239, 206, 245>>
    [] b = <<98, 98, 97>> ->
       <<50, 78, 141, 87, 22, 175, 228, 119, 81, 24, 254, 18, 37, 111, 211, 212, 136, 204, 229, 117, 227, 117, 206, 111, 142, 177, 108, 180, 181, 187, 181, 211>>
    [] b = <<98, 98, 98>> ->
       <<62, 116, 75, 157, 195, 147, 137, 186, 240, 197, 160, 102, 5, 137, 184, 64, 47, 61, 187, 73, 184, 155, 62, 117, 242, 201, 53, 88, 82, 163, 198, 119>>
    [] b = <<104, 101, 108, 108, 111>> ->
       <<44, 242, 77, 186, 95, 176, 163, 14, 38, 232, 59, 42, 197, 185, 226, 158, 27, 22, 30, 92, 31, 167, 66, 94, 115, 4, 51, 98, 147, 139, 152, 36>>

hextable == <<48, 49, 50, 51, 52, 53, 54, 55, 56, 57, 97, 98, 99, 100, 101, 102>>

\* hex.EncodeToString: two lower-case hex digits per byte, high nibble first
RECURSIVE EncodeToString(_)
EncodeToString(src) ==
  IF src = <<>> THEN <<>>
  ELSE <<hextable[(Head(src) \div 16) + 1], hextable[(Head(src) % 16) + 1]>>
         \o EncodeToString(Tail(src))

\* generateSha256 (it cannot fail: a bytes.Buffer never returns a read error)
generateSha256(buf) == EncodeToString(Sum256(buf))

(***************************************************************************)
(* strings.Fields on ASCII input.                                          *)
(***************************************************************************)
\* '\t', '\n', '\v', '\f', '\r', ' '
asciiSpace == {9, 10, 11, 12, 13, 32}

\* for i < len(s) && asciiSpace[s[i]] != 0 { i++ }: the first index from i on
\* that holds no white space, Len(s) + 1 when there is none
SkipSpace(s, i) ==
  CHOOSE j \in i..(Len(s) + 1) :
    /\ j = Len(s) + 1 \/ s[j] \notin asciiSpace
    /\ \A k \in i..(j - 1) : s[k] \in asciiSpace

\* the first index from i on that holds white space, Len(s) + 1 when there is none
FieldEnd(s, i) ==
  CHOOSE j \in i..(Len(s) + 1) :
    /\ j = Len(s) + 1 \/ s[j] \in asciiSpace
    /\ \A k \in i..(j - 1) : s[k] \notin asciiSpace

\* the fields of s found from index i on
RECURSIVE FieldsFrom(_, _)
FieldsFrom(s, i) ==
  LET fieldStart == SkipSpace(s, i)
  IN  IF fieldStart > Len(s) THEN <<>>
      ELSE <<SubSeq(s, fieldStart, FieldEnd(s, fieldStart) - 1)>>
             \o FieldsFrom(s, FieldEnd(s, fieldStart))

\* the pieces strings.Split would give: an empty first piece before leading white space
FieldsKeepLeading(s) ==
  IF s # <<>> /\ s[1] \in asciiSpace THEN <<<<>>>> \o FieldsFrom(s, 1) ELSE FieldsFrom(s, 1)

Fields(s) == FieldsFrom(s, 1)

(***************************************************************************)
(* The request (runOps) and the names derived from it.  request is the     *)
(* runOps value the caller builds; opts is run's parameter, a copy of it.  *)
(***************************************************************************)
Apps == {"svc", "api"}
Tags == {"v1.0.0"}
OSs == {"linux"}
Archs == {"amd64"}
Buckets == {"releases", "staging"}
Endpoints == {"s3.amazonaws.com"}

\* fmt.Sprintf("%s_%s_%s_%s", opts.app, opts.tag, opts.os, opts.arch)
fileName(o) == o.app \o "_" \o o.tag \o "_" \o o.os \o "_" \o o.arch

tarKey(o) == fileName(o) \o ".tar.gz"

\* the checksum key named after the archive key: base.tar.gz.sha256
checksumKeyOfArchive(o) == tarKey(o) \o ".sha256"

checksumKey(o) == fileName(o) \o ".sha256"

(***************************************************************************)
(* Error values.                                                           *)
(***************************************************************************)
Nil == "<nil>"

errChecksumMismatch == "checksum mismatch"

\* fmt.Errorf("Can't download archive from %s/%s", opts.bucket, tarKey)
ErrArchive(o) == "Can't download archive from " \o o.bucket \o "/" \o tarKey(o)

\* fmt.Errorf("Can't download checksum from %s/%s", opts.bucket, checksumKey)
ErrChecksum(o) == "Can't download checksum from " \o o.bucket \o "/" \o checksumKey(o)

\* the error of minio.New, returned as it is
ErrClient(o) == "minio.New " \o o.endpoint \o ": invalid endpoint"

\* the *os.PathError of os.Create, returned as it is
ErrCreate(o) == "open " \o tarKey(o) \o ": permission denied"

\* the error of io.Copy to the file, returned as it is
ErrWrite(o) == "write " \o tarKey(o) \o ": no space left on device"

\* strings.Fields(...)[0] on a slice of length 0
PanicIndex == "panic: runtime error: index out of range"

(***************************************************************************)
(* The environment: the object store and the local directory.              *)
(***************************************************************************)
\* an object of the store, a file of the directory: present with its bytes, or not
Object(b) == [exists |-> TRUE, data |-> b]
Missing == [exists |-> FALSE, data |-> <<>>]
File(b) == [exists |-> TRUE, data |-> b]
Absent == [exists |-> FALSE, data |-> <<>>]

AllOpts == [app : Apps, tag : Tags, os : OSs, arch : Archs, bucket : Buckets,
            endpoint : Endpoints]

StoreKeys == {tarKey(o) : o \in AllOpts} \cup {checksumKey(o) : o \in AllOpts}
FileNames == {tarKey(o) : o \in AllOpts}

\* a file another release left in the directory
OldContent == <<111, 108, 100>>

\* ASCII upper-casing, used to build digests that differ in letter case only
ToUpper(s) == [i \in 1..Len(s) |-> IF s[i] \in 97..122 THEN s[i] - 32 ELSE s[i]]

\* s with its last character changed
FlipLast(s) == [i \in 1..Len(s) |-> IF i = Len(s) THEN (IF s[i] = 48 THEN 49 ELSE 48) ELSE s[i]]

\* "abc123"
Abc123 == <<97, 98, 99, 49, 50, 51>>

\* the expected digests tried against an archive whose digest is d
Candidates(d) == {d, ToUpper(d), FlipLast(d), SubSeq(d, 1, Len(d) - 1), Abc123}

\* "  filename.tar.gz\n"
FileField == <<32, 32, 102, 46, 116, 97, 114, 46, 103, 122, 10>>

Leads == SeqsUpTo({32, 10}, MaxLeadSpace)

Trails(d) == {<<>>, <<10>>, FileField, <<9>> \o d \o <<13, 10>>}

\* the contents tried for the checksum object
ChecksumContents(d) ==
  {<<>>, <<32, 10>>}
    \cup {l \o c \o t : l \in Leads, c \in Candidates(d), t \in Trails(d)}

(***************************************************************************)
(* download: client.GetObject followed by io.Copy into a fresh buffer.     *)
(* The outcomes one call can have: the object's bytes, or an error (the    *)
(* key does not exist, or the connection fails).                           *)
(***************************************************************************)
download(bucket, key) ==
  {[err |-> TRUE, buf |-> <<>>]}
    \cup (IF store[<<bucket, key>>].exists
            THEN {[err |-> FALSE, buf |-> store[<<bucket, key>>].data]}
            ELSE {})

Event(op, bucket, key) == [op |-> op, bucket |-> bucket, key |-> key]

Running == [status |-> "running", err |-> Nil]
Return(e) == [status |-> "returned", err |-> e]
Panic(e) == [status |-> "panic", err |-> e]

\* the process has not exited / has exited with a status, after printing msg
\* (and the usage text when usage is TRUE)
NotExited == [exited |-> FALSE, code |-> 0, msg |-> "", usage |-> FALSE]
Exit(code, msg, usage) == [exited |-> TRUE, code |-> code, msg |-> msg, usage |-> usage]

(***************************************************************************)
(* The command line and the process environment, as main reads them.       *)
(* A flag that may be left out is <<>> when it is, <<v>> when given as v.  *)
(***************************************************************************)
\* runtime.GOOS, runtime.GOARCH
RuntimeGOOS == "linux"
RuntimeGOARCH == "amd64"

\* main.go 42-48
defaultOS(key, fallback) == IF environ[key] # "" THEN environ[key] ELSE fallback

\* the value of a string flag declared with default def
FlagValue(f, def) == IF f = <<>> THEN def ELSE f[1]

\* the zero value of runOps
ZeroOps == [app |-> "", tag |-> "", endpoint |-> "", bucket |-> "", id |-> "", key |-> "",
            os |-> "", arch |-> "", sha |-> <<>>]

\* the invocations tried for release o: every way of giving or leaving out
\* -bucket, -id, -key, the two credentials of the environment, APP and TAG
Cmdlines(o, sha) ==
  [bucket : {"", o.bucket}, id : {<<>>, <<"">>, <<"AKID">>},
   key : {<<>>, <<"">>, <<"SECRET">>}, endpoint : {o.endpoint}, sha : {sha},
   args : {SubSeq(<<o.app, o.tag, "extra">>, 1, n) : n \in 0..3}]

Environs ==
  [AWS_ACCESS_KEY_ID : {"", "AKID"}, AWS_SECRET_ACCESS_KEY : {"", "SECRET"},
   GOOS : {""}, GOARCH : {""}]

\* the usual invocation: credentials from the environment, all else given
UsualCmdline(o, sha) ==
  [bucket |-> o.bucket, id |-> <<>>, key |-> <<>>, endpoint |-> o.endpoint, sha |-> sha,
   args |-> <<o.app, o.tag>>]

UsualEnviron ==
  [AWS_ACCESS_KEY_ID |-> "AKID", AWS_SECRET_ACCESS_KEY |-> "SECRET", GOOS |-> "", GOARCH |-> ""]

\* the process starts with command line cl and environment en; the store holds
\* arch and sum under the keys of release o, the directory holds pre under its
\* file name
Start(o, arch, sum, pre, cl, en) ==
  /\ cmdline = cl
  /\ environ = en
  /\ exit = NotExited
  /\ request = ZeroOps
  /\ opts = ZeroOps
  /\ store = [bk \in Buckets \X StoreKeys |->
                IF bk = <<o.bucket, tarKey(o)>> THEN arch
                ELSE IF bk = <<o.bucket, checksumKey(o)>> THEN sum
                ELSE Missing]
  /\ files = [f \in FileNames |-> IF f = tarKey(o) THEN pre ELSE Absent]
  /\ files0 = files
  /\ pc = "main"
  /\ archive = <<>>
  /\ localChecksum = <<>>
  /\ ret = Running
  /\ trace = <<>>

\* Every store content and -sha value is tried with the usual invocation; every
\* invocation is tried against a store that holds "hello" and its checksum file.
Init ==
  \/ \E o \in AllOpts, a \in Archives, pre \in {Absent, File(OldContent)} :
       \E arch \in {Missing, Object(a)}, sha \in {<<>>} \cup Candidates(generateSha256(a)),
          sum \in {Missing} \cup {Object(c) : c \in ChecksumContents(generateSha256(a))} :
         Start(o, arch, sum, pre, UsualCmdline(o, sha), UsualEnviron)
  \/ \E o \in AllOpts, pre \in {Absent, File(OldContent)},
        sha \in {<<>>, generateSha256(Hello)}, en \in Environs :
       \E cl \in Cmdlines(o, sha) :
         Start(o, Object(Hello), Object(generateSha256(Hello) \o FileField), pre, cl, en)

\* the checks of main without the one of -key
usageErrorNoKey(bucket, id, key, args) ==
  IF bucket = "" THEN "-bucket is required"
  ELSE IF id = "" THEN "-id is required"
  ELSE IF Len(args) < 1 THEN "APP and TAG are required"
  ELSE IF Len(args) < 2 THEN "TAG is required"
  ELSE Nil

\* main.go 69-87: the message of the first check that fails, Nil when none does
usageError(bucket, id, key, args) ==
  IF bucket = "" THEN "-bucket is required"
  ELSE IF id = "" THEN "-id is required"
  ELSE IF key = "" THEN "-key is required"
  ELSE IF Len(args) < 1 THEN "APP and TAG are required"
  ELSE IF Len(args) < 2 THEN "TAG is required"
  ELSE Nil

\* main.go 60-102: parse the flags, check them, and call run or exit(err, true)
Main ==
  /\ pc = "main"
  /\ LET bucket == cmdline.bucket
         id == FlagValue(cmdline.id, defaultOS("AWS_ACCESS_KEY_ID", ""))
         key == FlagValue(cmdline.key, defaultOS("AWS_SECRET_ACCESS_KEY", ""))
         args == cmdline.args
         err == usageError(bucket, id, key, args)
     IN  IF err # Nil
           THEN /\ exit' = Exit(1, err, TRUE)
                /\ pc' = "exited"
                /\ UNCHANGED <<request, opts>>
           ELSE /\ request' = [app |-> args[1], tag |-> args[2], bucket |-> bucket,
                               id |-> id, key |-> key,
                               os |-> defaultOS("GOOS", RuntimeGOOS),
                               arch |-> defaultOS("GOARCH", RuntimeGOARCH),
                               endpoint |-> cmdline.endpoint, sha |-> cmdline.sha]
                /\ opts' = request'
                /\ pc' = "new_client"
                /\ exit' = exit
  /\ UNCHANGED <<cmdline, environ, store, files, files0, archive, localChecksum, ret, trace>>

\* main.go 103-106: exit(err, false) when run returned an error, else main
\* returns; a panic of run ends the process with status 2
MainReturn ==
  /\ pc = "done"
  /\ exit' = IF ret.status = "panic" THEN Exit(2, ret.err, FALSE)
             ELSE IF ret.err # Nil THEN Exit(1, ret.err, FALSE)
             ELSE Exit(0, "", FALSE)
  /\ pc' = "exited"
  /\ UNCHANGED <<cmdline, environ, request, opts, store, files, files0, archive,
                 localChecksum, ret, trace>>

\* main.go 146-149: minio.New
NewClient ==
  /\ pc = "new_client"
  /\ \E ok \in BOOLEAN :
       IF ok THEN pc' = "download_archive" /\ ret' = ret
             ELSE pc' = "done" /\ ret' = Return(ErrClient(opts))
  /\ UNCHANGED <<cmdline, environ, exit, request, opts, store, files, files0, archive, localChecksum, trace>>

\* DownloadArchive that asks a second time when the first request fails
DownloadArchiveRetry ==
  /\ pc = "download_archive"
  /\ \E r1 \in download(opts.bucket, tarKey(opts)) :
       IF r1.err
         THEN /\ trace' = trace \o <<Event("GetObject", opts.bucket, tarKey(opts)),
                                     Event("GetObject", opts.bucket, tarKey(opts))>>
              /\ \E r2 \in download(opts.bucket, tarKey(opts)) :
                   IF r2.err
                     THEN pc' = "done" /\ ret' = Return(ErrArchive(opts)) /\ archive' = archive
                     ELSE pc' = "generate" /\ ret' = ret /\ archive' = r2.buf
         ELSE /\ trace' = Append(trace, Event("GetObject", opts.bucket, tarKey(opts)))
              /\ pc' = "generate" /\ ret' = ret /\ archive' = r1.buf
  /\ UNCHANGED <<cmdline, environ, exit, request, opts, store, files, files0, localChecksum>>

\* DownloadArchive that asks for the checksum object first
DownloadArchiveAfterChecksum ==
  /\ pc = "download_archive"
  /\ trace' = trace \o <<Event("GetObject", opts.bucket, checksumKey(opts)),
                         Event("GetObject", opts.bucket, tarKey(opts))>>
  /\ \E r \in download(opts.bucket, tarKey(opts)) :
       IF r.err
         THEN pc' = "done" /\ ret' = Return(ErrArchive(opts)) /\ archive' = archive
         ELSE pc' = "generate" /\ ret' = ret /\ archive' = r.buf
  /\ UNCHANGED <<cmdline, environ, exit, request, opts, store, files, files0, localChecksum>>

\* main.go 157-160: archive, err := download(minioClient, opts.bucket, tarKey)
DownloadArchive ==
  /\ pc = "download_archive"
  /\ trace' = Append(trace, Event("GetObject", opts.bucket, tarKey(opts)))
  /\ \E r \in download(opts.bucket, tarKey(opts)) :
       IF r.err
         THEN pc' = "done" /\ ret' = Return(ErrArchive(opts)) /\ archive' = archive
         ELSE pc' = "generate" /\ ret' = ret /\ archive' = r.buf
  /\ UNCHANGED <<cmdline, environ, exit, request, opts, store, files, files0, localChecksum>>

\* main.go 166-169: localChecksum, err := generateSha256(archive).  io.Copy(h, buf)
\* reads the buffer to its end (bytes.Buffer.WriteTo), which leaves it empty.
GenerateChecksum ==
  /\ pc = "generate"
  /\ localChecksum' = generateSha256(archive)
  /\ archive' = <<>>
  /\ trace' = Append(trace, Event("Sum256", "", ""))
  /\ pc' = "resolve"
  /\ UNCHANGED <<cmdline, environ, exit, request, opts, store, files, files0, ret>>

\* ResolveChecksum on a run that got its runOps by reference: the resolved
\* digest lands in the caller's value too
ResolveChecksumByReference ==
  /\ pc = "resolve"
  /\ IF opts.sha = <<>>
       THEN /\ trace' = Append(trace, Event("GetObject", opts.bucket, checksumKey(opts)))
            /\ \E r \in download(opts.bucket, checksumKey(opts)) :
                 IF r.err
                   THEN pc' = "done" /\ ret' = Return(ErrChecksum(opts)) /\ opts' = opts
                 ELSE IF Len(Fields(r.buf)) = 0
                   THEN pc' = "done" /\ ret' = Panic(PanicIndex) /\ opts' = opts
                 ELSE /\ pc' = "compare"
                      /\ ret' = ret
                      /\ opts' = [opts EXCEPT !.sha = Fields(r.buf)[1]]
       ELSE /\ pc' = "compare"
            /\ UNCHANGED <<opts, ret, trace>>
  /\ request' = opts'
  /\ UNCHANGED <<cmdline, environ, exit, store, files, files0, archive, localChecksum>>

\* ResolveChecksum that downloads the checksum object before it looks at -sha
ResolveChecksumAlwaysFetch ==
  /\ pc = "resolve"
  /\ trace' = Append(trace, Event("GetObject", opts.bucket, checksumKey(opts)))
  /\ \E r \in download(opts.bucket, checksumKey(opts)) :
       IF opts.sha # <<>>
         THEN pc' = "compare" /\ ret' = ret /\ opts' = opts
       ELSE IF r.err
         THEN pc' = "done" /\ ret' = Return(ErrChecksum(opts)) /\ opts' = opts
       ELSE IF Len(Fields(r.buf)) = 0
         THEN pc' = "done" /\ ret' = Panic(PanicIndex) /\ opts' = opts
       ELSE /\ pc' = "compare"
            /\ ret' = ret
            /\ opts' = [opts EXCEPT !.sha = Fields(r.buf)[1]]
  /\ UNCHANGED <<cmdline, environ, exit, request, store, files, files0, archive, localChecksum>>

\* main.go 173-187: the expected digest, from -sha or from the checksum object
ResolveChecksum ==
  /\ pc = "resolve"
  /\ IF opts.sha = <<>>
       THEN /\ trace' = Append(trace, Event("GetObject", opts.bucket, checksumKey(opts)))
            /\ \E r \in download(opts.bucket, checksumKey(opts)) :
                 IF r.err
                   THEN pc' = "done" /\ ret' = Return(ErrChecksum(opts)) /\ opts' = opts
                 ELSE IF Len(Fields(r.buf)) = 0
                   THEN pc' = "done" /\ ret' = Panic(PanicIndex) /\ opts' = opts
                 ELSE /\ pc' = "compare"
                      /\ ret' = ret
                      /\ opts' = [opts EXCEPT !.sha = Fields(r.buf)[1]]
       ELSE /\ pc' = "compare"
            /\ UNCHANGED <<opts, ret, trace>>
  /\ UNCHANGED <<cmdline, environ, exit, request, store, files, files0, archive, localChecksum>>

\* ASCII lower-casing
ToLower(s) == [i \in 1..Len(s) |-> IF s[i] \in 65..90 THEN s[i] + 32 ELSE s[i]]

\* Compare with strings.EqualFold in place of !=
CompareEqualFold ==
  /\ pc = "compare"
  /\ trace' = Append(trace, Event("Compare", "", ""))
  /\ IF ToLower(opts.sha) # ToLower(localChecksum)
       THEN pc' = "done" /\ ret' = Return(errChecksumMismatch)
       ELSE pc' = "create" /\ ret' = ret
  /\ UNCHANGED <<cmdline, environ, exit, request, opts, store, files, files0, archive, localChecksum>>

\* Compare without its gate: the run goes on to save the archive on a mismatch
CompareUngated ==
  /\ pc = "compare"
  /\ trace' = Append(trace, Event("Compare", "", ""))
  /\ pc' = "create"
  /\ UNCHANGED <<cmdline, environ, exit, request, opts, store, files, files0, archive, localChecksum, ret>>

\* main.go 191-196: if opts.sha != localChecksum { return errChecksumMismatch }
Compare ==
  /\ pc = "compare"
  /\ trace' = Append(trace, Event("Compare", "", ""))
  /\ IF opts.sha # localChecksum
       THEN pc' = "done" /\ ret' = Return(errChecksumMismatch)
       ELSE pc' = "create" /\ ret' = ret
  /\ UNCHANGED <<cmdline, environ, exit, request, opts, store, files, files0, archive, localChecksum>>

\* main.go 200-203: archiveFile, err := os.Create(tarKey) creates the file or
\* truncates it, or fails and leaves the directory as it is
CreateFile ==
  /\ pc = "create"
  /\ trace' = Append(trace, Event("Create", "", tarKey(opts)))
  /\ \E ok \in BOOLEAN :
       IF ok THEN pc' = "copy" /\ ret' = ret
                  /\ files' = [files EXCEPT ![tarKey(opts)] = File(<<>>)]
             ELSE pc' = "done" /\ ret' = Return(ErrCreate(opts)) /\ files' = files
  /\ UNCHANGED <<cmdline, environ, exit, request, opts, store, files0, archive, localChecksum>>

\* main.go 205-211: io.Copy(archiveFile, archive) writes the unread part of the
\* buffer; a write that stops after n bytes is an error
CopyArchive ==
  /\ pc = "copy"
  /\ trace' = Append(trace, Event("Write", "", tarKey(opts)))
  /\ \E n \in 0..Len(archive) :
       /\ files' = [files EXCEPT ![tarKey(opts)] = File(@.data \o SubSeq(archive, 1, n))]
       /\ archive' = SubSeq(archive, n + 1, Len(archive))
       /\ ret' = IF n = Len(archive) THEN Return(Nil) ELSE Return(ErrWrite(opts))
  /\ pc' = "done"
  /\ UNCHANGED <<cmdline, environ, exit, request, opts, store, files0, localChecksum>>

Next ==
  \/ Main
  \/ MainReturn
  \/ NewClient
  \/ DownloadArchive
  \/ GenerateChecksum
  \/ ResolveChecksum
  \/ Compare
  \/ CreateFile
  \/ CopyArchive

Spec == Init /\ [][Next]_vars

(***************************************************************************)
(* Vocabulary of the properties.                                           *)
(***************************************************************************)
\* run has returned or panicked
Ended == ret.status # "running"

\* the objects the store holds under the two keys of the request
StoredArchive == store[<<request.bucket, tarKey(request)>>]
StoredChecksum == store[<<request.bucket, checksumKey(request)>>]

\* the digest of the archive the store holds
TrueDigest == generateSha256(StoredArchive.data)

\* the local file named by the archive key
SavedFile == files[tarKey(request)]

Did(op) == \E i \in DOMAIN trace : trace[i].op = op

Compared == Did("Compare")

ChecksumFetches ==
  {i \in DOMAIN trace : trace[i].op = "GetObject" /\ trace[i].key = checksumKey(request)}

Mismatch == ret = Return(errChecksumMismatch)

Succeeded == Ended /\ ret = Return(Nil)

(***************************************************************************)
(* C1: the local file is created or written only after the comparison has  *)
(* found the expected and the computed digest equal; on a mismatch run     *)
(* returns errChecksumMismatch and the directory is as it was before.      *)
(***************************************************************************)
C1_WriteOnlyAfterMatch ==
  /\ \A i \in DOMAIN trace :
       trace[i].op \in {"Create", "Write"}
         => /\ \E j \in 1..(i - 1) : trace[j].op = "Compare"
            /\ opts.sha = localChecksum
  /\ files # files0 => Compared /\ opts.sha = localChecksum
  /\ Compared /\ opts.sha # localChecksum => Ended /\ Mismatch /\ files = files0

\* a mismatch run has ended next to a file an earlier release left there
C1_Witness ==
  /\ Ended /\ Mismatch /\ Compared
  /\ files0[tarKey(request)] = File(OldContent)
  /\ SavedFile = File(OldContent)

(***************************************************************************)
(* C2: when run returns nil, the local file named by the archive key holds *)
(* exactly the bytes fetched from the store under the archive key.         *)
(***************************************************************************)
C2_SavedFileIsFetchedArchive ==
  Succeeded => SavedFile = File(StoredArchive.data)

(***************************************************************************)
(* C3: once both digests are there, the run passes the comparison iff the  *)
(* expected digest equals the digest of the archive exactly; any other     *)
(* expected digest, one differing only in letter case included, ends the   *)
(* run with errChecksumMismatch.                                           *)
(***************************************************************************)
C3_ExactComparison ==
  Compared =>
    /\ opts.sha = TrueDigest => ~Mismatch /\ (Ended \/ pc \in {"create", "copy"})
    /\ opts.sha # TrueDigest => Ended /\ Mismatch

\* the expected digest is the right one in upper case, and the run failed
C3_Witness ==
  /\ Compared /\ Ended /\ Mismatch
  /\ opts.sha # TrueDigest
  /\ opts.sha = ToUpper(TrueDigest)

(***************************************************************************)
(* C4: with a non-empty -sha the checksum object is never fetched, and the *)
(* override is the expected digest, unchanged, whatever the store holds    *)
(* under the checksum key.                                                 *)
(***************************************************************************)
C4_OverrideSkipsChecksumFetch ==
  request.sha # <<>> =>
    /\ ChecksumFetches = {}
    /\ opts.sha = request.sha
    /\ Compared => (Mismatch <=> request.sha # TrueDigest)

\* a run with an override succeeded although the store has no checksum object
C4_Witness ==
  /\ request.sha # <<>>
  /\ Succeeded
  /\ ~StoredChecksum.exists

NoToken(s) == \A i \in DOMAIN s : s[i] \in asciiSpace

\* the checksum object was downloaded
ChecksumObtained ==
  /\ ChecksumFetches # {}
  /\ ret # Return(ErrChecksum(request))

(***************************************************************************)
(* C5: with no -sha and a checksum object that holds no token (empty or    *)
(* white space only), run returns an error of its own kind, and no local   *)
(* file is written.                                                        *)
(***************************************************************************)
C5_MalformedChecksumIsReturned ==
  request.sha = <<>> /\ ChecksumObtained /\ NoToken(StoredChecksum.data)
    => /\ Ended
       /\ ret.status = "returned"
       /\ ret.err \notin {Nil, ErrClient(request), ErrArchive(request),
                          ErrChecksum(request), errChecksumMismatch}
       /\ files = files0

\* t is the first token of s: s is white space, then t, then nothing or white
\* space and anything
IsFirstToken(t, s) ==
  /\ Len(t) > 0
  /\ \A k \in DOMAIN t : t[k] \notin asciiSpace
  /\ \E n \in 0..(Len(s) - Len(t)) :
       /\ \A k \in 1..n : s[k] \in asciiSpace
       /\ SubSeq(s, n + 1, n + Len(t)) = t
       /\ n + Len(t) = Len(s) \/ s[n + Len(t) + 1] \in asciiSpace

(***************************************************************************)
(* C6: with no -sha and a checksum object holding a token, the expected    *)
(* digest is the first white-space-delimited token of the object; white    *)
(* space around it and later tokens do not change the outcome.             *)
(***************************************************************************)
C6_ExpectedIsFirstToken ==
  request.sha = <<>> /\ (pc \in {"compare", "create", "copy"} \/ Compared)
    => /\ IsFirstToken(opts.sha, StoredChecksum.data)
       /\ Compared => (Mismatch <=> ~IsFirstToken(TrueDigest, StoredChecksum.data))

\* the digest stood after a newline and before "  f.tar.gz\n", and the run succeeded
C6_Witness ==
  /\ request.sha = <<>>
  /\ Succeeded
  /\ StoredChecksum.data = <<10>> \o TrueDigest \o FileField

LastOp == IF trace = <<>> THEN "" ELSE trace[Len(trace)].op

(***************************************************************************)
(* C7: every failing run returns an error that tells its cause: the five   *)
(* causes give five different errors, and errChecksumMismatch is returned  *)
(* iff both digests were obtained and differ.                              *)
(***************************************************************************)
C7_EveryFailureReturnsItsError ==
  /\ Cardinality({ErrArchive(request), ErrChecksum(request), errChecksumMismatch,
                  ErrCreate(request), ErrWrite(request)}) = 5
  /\ Ended =>
       /\ ret.status = "returned"
       /\ ret.err = errChecksumMismatch <=> Compared /\ opts.sha # localChecksum
       /\ ret.err = ErrArchive(request) <=> Len(trace) = 1
       /\ ret.err = ErrChecksum(request) =>
            LastOp = "GetObject" /\ ChecksumFetches # {}
       /\ LastOp = "GetObject" /\ ChecksumFetches # {} /\ ret.err # ErrChecksum(request)
            => ret.err \notin {Nil, ErrClient(request), ErrArchive(request),
                               errChecksumMismatch, ErrCreate(request), ErrWrite(request)}
       /\ ret.err \in {ErrCreate(request), ErrWrite(request)} =>
            LastOp \in {"Create", "Write"}

(***************************************************************************)
(* C8: the write is atomic and complete: a run that passed the comparison  *)
(* ends with the whole archive in the file, or with an error and the file  *)
(* as it was before the run.                                               *)
(***************************************************************************)
C8_AtomicFullWrite ==
  Ended /\ Did("Create") =>
    \/ ret = Return(Nil) /\ SavedFile = File(StoredArchive.data)
    \/ ret.err # Nil /\ files = files0

Base == request.app \o "_" \o request.tag \o "_" \o request.os \o "_" \o request.arch

(***************************************************************************)
(* C9: the archive key, the checksum key and the local file name all come  *)
(* from the base app_tag_os_arch: base.tar.gz is fetched and is the file   *)
(* name, base.sha256 is the checksum key, and both fetches name the bucket *)
(* of the request.                                                         *)
(***************************************************************************)
C9_KeysShareBase ==
  /\ \A i \in DOMAIN trace :
       /\ trace[i].op = "GetObject" =>
            /\ trace[i].bucket = request.bucket
            /\ trace[i].key = IF i = 1 THEN Base \o ".tar.gz" ELSE Base \o ".sha256"
       /\ trace[i].op \in {"Create", "Write"} => trace[i].key = Base \o ".tar.gz"
  /\ \A f \in DOMAIN files : files[f] # files0[f] => f = Base \o ".tar.gz"

\* a run of app "api" fetched both objects and saved its file
C9_Witness ==
  /\ Succeeded
  /\ request.app = "api"
  /\ Cardinality({i \in DOMAIN trace : trace[i].op = "GetObject"}) = 2
  /\ files # files0

Rank(e) ==
  CASE e.op = "GetObject" /\ e.key = tarKey(request) -> 1
    [] e.op = "Sum256" -> 2
    [] e.op = "GetObject" /\ e.key # tarKey(request) -> 3
    [] e.op = "Compare" -> 4
    [] e.op = "Create" -> 5
    [] e.op = "Write" -> 6

(***************************************************************************)
(* C10: the steps of a run happen in the order archive fetch, digest,      *)
(* checksum fetch (only without -sha), comparison, create, write; each at  *)
(* most once, each after its predecessor; the digest is the digest of the  *)
(* whole archive before the checksum object is asked for.                  *)
(***************************************************************************)
C10_StepsInOrder ==
  /\ \A i \in DOMAIN trace :
       IF i = 1 THEN Rank(trace[i]) = 1
       ELSE \/ Rank(trace[i]) = Rank(trace[i - 1]) + 1
            \/ Rank(trace[i - 1]) = 2 /\ Rank(trace[i]) = 4
  /\ Compared => (ChecksumFetches # {} <=> request.sha = <<>>)
  /\ Len(trace) >= 2 => localChecksum = TrueDigest

\* a run without -sha went through all six steps
C10_Witness ==
  /\ Succeeded
  /\ Len(trace) = 6
  /\ request.sha = <<>>

GetObjects(key) == {i \in DOMAIN trace : trace[i].op = "GetObject" /\ trace[i].key = key}

(***************************************************************************)
(* C11: an error ends the run: after a failed archive fetch nothing else   *)
(* happens, after a failed checksum fetch neither the comparison nor a     *)
(* write happens, no key is asked for twice, and in both cases run returns *)
(* an error and the directory is as it was before.                         *)
(***************************************************************************)
C11_FetchErrorsAreTerminal ==
  /\ Cardinality(GetObjects(tarKey(request))) <= 1
  /\ Cardinality(GetObjects(checksumKey(request))) <= 1
  /\ Len(trace) >= 2 => StoredArchive.exists /\ localChecksum = TrueDigest
  /\ ret = Return(ErrArchive(request)) =>
       /\ Ended
       /\ trace = <<Event("GetObject", request.bucket, tarKey(request))>>
       /\ localChecksum = <<>>
       /\ files = files0
  /\ ret = Return(ErrChecksum(request)) =>
       /\ Ended
       /\ LastOp = "GetObject" /\ ChecksumFetches # {}
       /\ ~Did("Compare") /\ ~Did("Create") /\ ~Did("Write")
       /\ files = files0
  /\ Compared /\ request.sha = <<>> => StoredChecksum.exists

\* the checksum fetch failed on a connection error although the object is in
\* the store (asking again could have succeeded), next to an older file
C11_Witness ==
  /\ Ended
  /\ ret = Return(ErrChecksum(request))
  /\ StoredChecksum.exists
  /\ SavedFile = File(OldContent)

(***************************************************************************)
(* C12: the request is never assigned during the run: from the call of run *)
(* on, every field of it, the expected checksum included, keeps the value  *)
(* it had when the run began.                                              *)
(***************************************************************************)
C12_RequestNeverAssigned == [][pc # "main" => opts' = opts]_vars

(***************************************************************************)
(* C12 as amended: from the call of run on, the caller's runOps value is    *)
(* never changed; of run's own copy only sha is ever assigned, once, when  *)
(* it was empty, to the first token of the checksum object.                *)
(***************************************************************************)
C12_OnlyShaResolved ==
  [][pc # "main" =>
       /\ request' = request
       /\ opts' # opts =>
            /\ opts.sha = <<>>
            /\ opts' = [opts EXCEPT !.sha = opts'.sha]
            /\ IsFirstToken(opts'.sha, StoredChecksum.data)]_vars

\* the run succeeded with the digest taken from the checksum object
C12_Witness ==
  /\ Succeeded
  /\ request.sha = <<>>
  /\ opts.sha = TrueDigest

\* the credentials and arguments main ends up with
EffectiveId == FlagValue(cmdline.id, environ["AWS_ACCESS_KEY_ID"])
EffectiveKey == FlagValue(cmdline.key, environ["AWS_SECRET_ACCESS_KEY"])

Complete ==
  /\ cmdline.bucket # ""
  /\ EffectiveId # ""
  /\ EffectiveKey # ""
  /\ Len(cmdline.args) >= 2

\* run has been called
RunStarted == pc \notin {"main", "exited"} \/ ret.status # "running" \/ trace # <<>>

(***************************************************************************)
(* C13: main calls run only when bucket, access id and secret key are all  *)
(* non-empty and APP and TAG are both given; otherwise the process exits   *)
(* with status 1, no object is fetched and no local file is created.       *)
(***************************************************************************)
C13_RunOnlyOnCompleteCommandLine ==
  /\ RunStarted => Complete
  /\ request # ZeroOps => Complete
  /\ pc # "main" /\ ~Complete =>
       /\ pc = "exited"
       /\ exit.exited /\ exit.code = 1
       /\ trace = <<>>
       /\ ret = Running
       /\ files = files0
  /\ pc # "main" /\ Complete => RunStarted

\* APP was given without TAG, credentials in the environment: the process
\* exited with status 1 and the archive waiting in the store was not fetched
C13_Witness ==
  /\ pc = "exited"
  /\ exit = Exit(1, "TAG is required", TRUE)
  /\ Len(cmdline.args) = 1
  /\ cmdline.bucket # ""
  /\ \E bk \in DOMAIN store : store[bk].exists
  /\ trace = <<>>

(***************************************************************************)
(* C14: every run comes to an end, and the end is success or a returned    *)
(* error, whatever the store holds and whether -sha is given; the end is   *)
(* success only if the archive was fetched, the digests compared equal and *)
(* the write step completed.                                               *)
(***************************************************************************)
C14_RunEndsInSuccessOrError ==
  /\ RunStarted /\ ~ENABLED Next => ret.status = "returned"
  /\ ret = Return(Nil) =>
       /\ GetObjects(tarKey(request)) # {} /\ StoredArchive.exists
       /\ Compared /\ opts.sha = localChecksum
       /\ Did("Create") /\ Did("Write")
====
